---- MODULE Spec2Model ----
(***************************************************************************)
(* SEEDS Dashboard: the topic-matrix builder, the size and colour encoders *)
(* of the Home page (home.py) and the aggregations of the Topics page      *)
(* (topics.py), as state machines over the tables the pages load.          *)
(*                                                                         *)
(* Numbers: keyword weights and counts are exact integers here; the sizes  *)
(* are computed in float64 as the code computes them.  Terms are integer   *)
(* codes whose numeric order is the lexicographic order of the strings.    *)
(***************************************************************************)
EXTENDS Integers, Sequences, FiniteSets, TLC

VARIABLES
    pc,             \* position of the running function / page render
    \* ---- home._build_topic_matrix
    topic_data,     \* the parameter: a list of dicts
    vocab,          \* sorted list of the distinct terms
    item_i,         \* index of the record the for loop is at
    rows,           \* list of row vectors built so far
    topic_ids,      \* list of int(topic_number), aligned with rows
    top5,           \* list of the first five terms per record, aligned
    X,              \* the returned matrix: [shape, data]
    outcome,        \* "none" | "returned" | "raised"
    \* ---- home._topic_sizes
    sz_topic_ids,   \* the parameter topic_ids
    topics_df,      \* the topic-frequency table: [columns, rows]
    blogs_df,       \* the per-document table: [columns, rows]
    labels_map,     \* dict: str(topic id) -> label
    raw,            \* list of raw popularity values
    sizes,          \* the returned sizes, float64 values
    \* ---- home._color_map
    cm_labels,      \* the parameter labels, before astype(str)
    cats,           \* the distinct labels, in first-encounter order
    cmap,           \* the returned dict: label -> colour
    \* ---- topics.show, "Top Voices"
    selected_articles_df,   \* the articles of the selected topics
    author_counts,          \* value_counts() as rows [Author, Count]
    top_authors_df,
    others_count,
    pie_chart_data,
    pie_result,             \* "none" | "chart" | "info_no_authors" | "info_no_blogs"
    \* ---- topics.show, "Top 10 Keywords"
    kw_topic_data,          \* the module's topic_data
    kw_selected,            \* selected_topic_numbers
    keywords_list,
    keywords_df,            \* grouped and sorted rows [Keyword, Score]
    bar_data,               \* keywords_df.head(10), the rows the bar chart draws
    bar_result,             \* "none" | "chart" | "info"
    \* ---- topics.show, year filter and "Topic Growth Over Time"
    yr_topics_df,           \* the module's topics_df: [columns, rows]
    yr_selected,            \* selected_topic_numbers
    start_year,             \* <<>> for None, <<y>> for the year y
    end_year,
    selected_topics_over_time_df,
    line_result,            \* "none" | "chart" | "info" | "error"
    \* ---- home.show
    hm_pc,                  \* position of show
    use_umap,               \* _USE_UMAP
    docs3d,                 \* <<>> for None, <<[columns, labels]>> for a table
    hm_calls,               \* the functions of the keyword pipeline called so far
    reduced,                \* shape of the reducer's result, <<>> before it
    home_result             \* what the render ended with, "none" before

vars_bm == <<topic_data, vocab, item_i, rows, topic_ids, top5, X, outcome>>

vars_sz == <<sz_topic_ids, topics_df, blogs_df, labels_map, raw, sizes>>

vars_cm == <<cm_labels, cats, cmap>>

vars_au == <<selected_articles_df, author_counts, top_authors_df, others_count,
             pie_chart_data, pie_result>>

vars_kw == <<kw_topic_data, kw_selected, keywords_list, keywords_df, bar_data,
             bar_result>>

vars_yr == <<yr_topics_df, yr_selected, start_year, end_year,
             selected_topics_over_time_df, line_result>>

vars_hm == <<hm_pc, use_umap, docs3d, hm_calls, reduced, home_result>>

vars == <<pc, vars_bm, vars_sz, vars_cm, vars_au, vars_kw, vars_yr, vars_hm>>

\* what a function leaves alone: the state of the others
others_bm == <<vars_sz, vars_cm, vars_au, vars_kw, vars_yr, vars_hm>>

others_sz == <<vars_bm, vars_cm, vars_au, vars_kw, vars_yr, vars_hm>>

others_cm == <<vars_bm, vars_sz, vars_au, vars_kw, vars_yr, vars_hm>>

others_au == <<vars_bm, vars_sz, vars_cm, vars_kw, vars_yr, vars_hm>>

others_kw == <<vars_bm, vars_sz, vars_cm, vars_au, vars_yr, vars_hm>>

others_yr == <<vars_bm, vars_sz, vars_cm, vars_au, vars_kw, vars_hm>>

others_hm == <<vars_au, vars_kw, vars_yr>>

-----------------------------------------------------------------------------
(* Generic helpers                                                          *)

Range(s) == {s[k] : k \in DOMAIN s}

RECURSIVE SumSeq(_)
SumSeq(s) == IF s = <<>> THEN 0 ELSE s[1] + SumSeq(Tail(s))

Min(S) == CHOOSE m \in S : \A n \in S : m <= n

Max(S) == CHOOSE m \in S : \A n \in S : m >= n

\* Python sorted() on a set of terms: ascending, no duplicates.
RECURSIVE Sorted(_)
Sorted(S) == IF S = {} THEN <<>> ELSE <<Min(S)>> \o Sorted(S \ {Min(S)})

\* Python s[:n]
Take(s, n) == SubSeq(s, 1, IF Len(s) < n THEN Len(s) ELSE n)

\* dict.get(key, default) on a dict modelled as a function over its keys
Get(d, key, default) == IF key \in DOMAIN d THEN d[key] ELSE default

HasKey(d, key) == key \in DOMAIN d

-----------------------------------------------------------------------------
(* Bounds of the matrix-builder inputs                                      *)

MaxTopics == 2          \* records in topic_data

MaxEntries == 2         \* (term, score) pairs over all records together

Terms == {1, 2}

TopicNums == {0, 1}

\* A JSON score: a number, a numeric string, or a value float() rejects
\* (a non-numeric string, null).
Scores ==
    { [kind |-> "num", val |-> 1],
      [kind |-> "numstr", val |-> 2],
      [kind |-> "bad", val |-> 0] }

ValidScores == {s \in Scores : s.kind # "bad"}

Pairs == {<<kw, s>> : kw \in Terms, s \in Scores}

\* A dict of topic_data before its keyword pairs are read: "topic_number" and
\* "keywords" may each be missing.
NewItems ==
    LET kwOpts == {("keywords" :> <<>>), <<>>}
        tnOpts == {("topic_number" :> t) : t \in TopicNums} \cup {<<>>}
    IN  {tn @@ kw : tn \in tnOpts, kw \in kwOpts}

\* number of (term, score) pairs in td
RECURSIVE EntryCount(_)
EntryCount(td) ==
    IF td = <<>> THEN 0
    ELSE Len(Get(td[1], "keywords", <<>>)) + EntryCount(Tail(td))

-----------------------------------------------------------------------------
(* home._build_topic_matrix                                                 *)

Keywords(item) == Get(item, "keywords", <<>>)

VocabOfNumbered(td) ==
    Sorted(UNION {{p[1] : p \in Range(Keywords(td[k]))} :
                  k \in {n \in DOMAIN td : "topic_number" \in DOMAIN td[n]}})

\* line 40: sorted({kw for item in topic_data for kw, _ in item.get("keywords", [])})
VocabOf(td) ==
    Sorted(UNION {{p[1] : p \in Range(Keywords(td[k]))} : k \in DOMAIN td})

VocabNeverEmpty(voc) == FALSE

\* line 41: if not vocab
VocabIsEmpty(voc) == voc = <<>>

\* line 43: idx = {kw: i for i, kw in enumerate(vocab)}  (1-based here)
Idx(voc, kw) == CHOOSE c \in DOMAIN voc : voc[c] = kw

\* float(score): does it raise, and what it returns when it does not
FloatRaises(score) == score.kind = "bad"

FloatOf(score) == score.val

\* lines 54-57: try: vec[idx[kw]] = float(score) / except: vec[idx[kw]] = 0.0
\* raised = an exception left the try statement
StoreUncaught(score) == [raised |-> FloatRaises(score), val |-> 0]

StoreCell(score) ==
    [raised |-> FALSE, val |-> IF FloatRaises(score) THEN 0 ELSE FloatOf(score)]

SetCellAccumulate(vec, c, v) == [vec EXCEPT ![c] = @ + v]

\* the assignment vec[c] = v
SetCell(vec, c, v) == [vec EXCEPT ![c] = v]

\* lines 50-57: the vector after the first j pairs of kws
RECURSIVE VecAfter(_, _, _)
VecAfter(voc, kws, j) ==
    IF j = 0 THEN [c \in DOMAIN voc |-> 0]
    ELSE LET kw == kws[j][1]
             prev == VecAfter(voc, kws, j - 1)
         IN  IF kw \in Range(voc)
             THEN SetCell(prev, Idx(voc, kw), StoreCell(kws[j][2]).val)
             ELSE prev

RowRaises(kws) == \E j \in DOMAIN kws : StoreCell(kws[j][2]).raised

RowVec(voc, kws) == VecAfter(voc, kws, Len(kws))

Top5Sorted(kws) == Take(Sorted({kws[k][1] : k \in DOMAIN kws}), 5)

\* line 60: ", ".join([kw for kw, _ in kws[:5]]) if kws else ""
\* the joined string is given by the list of terms it joins
Top5Of(kws) == [k \in DOMAIN Take(kws, 5) |-> kws[k][1]]

\* int(t)
IntOf(t) == t

EmptyMatrix == [shape |-> <<0, 0>>, data |-> <<>>]

\* line 62: np.vstack(rows) if rows else np.zeros((0, len(vocab)))
VStack(rs, voc) ==
    IF rs # <<>> THEN [shape |-> <<Len(rs), Len(rs[1])>>, data |-> rs]
    ELSE [shape |-> <<0, Len(voc)>>, data |-> <<>>]

EmptyDf == [columns |-> <<>>, rows |-> <<>>]

\* _topic_sizes is not running
IdleSZ ==
    /\ sz_topic_ids = <<>>
    /\ topics_df = EmptyDf
    /\ blogs_df = EmptyDf
    /\ labels_map = <<>>
    /\ raw = <<>>
    /\ sizes = <<>>

\* _color_map is not running
IdleCM == cm_labels = <<>> /\ cats = <<>> /\ cmap = <<>>

\* the Topics page is not rendering its pie chart
IdleAU ==
    /\ selected_articles_df = EmptyDf
    /\ author_counts = <<>>
    /\ top_authors_df = <<>>
    /\ others_count = 0
    /\ pie_chart_data = <<>>
    /\ pie_result = "none"

\* the Topics page is not rendering its bar chart
IdleKW ==
    /\ kw_topic_data = <<>>
    /\ kw_selected = <<>>
    /\ keywords_list = <<>>
    /\ keywords_df = <<>>
    /\ bar_data = <<>>
    /\ bar_result = "none"

\* the Topics page is not filtering by year
IdleYR ==
    /\ yr_topics_df = EmptyDf
    /\ yr_selected = <<>>
    /\ start_year = <<>>
    /\ end_year = <<>>
    /\ selected_topics_over_time_df = EmptyDf
    /\ line_result = "none"

\* the Home page is not rendering
IdleHM ==
    /\ hm_pc = "idle"
    /\ use_umap = FALSE
    /\ docs3d = <<>>
    /\ hm_calls = {}
    /\ reduced = <<>>
    /\ home_result = "none"

InitBM ==
    /\ topic_data = <<>>
    /\ vocab = <<>>
    /\ item_i = 0
    /\ rows = <<>>
    /\ topic_ids = <<>>
    /\ top5 = <<>>
    /\ X = EmptyMatrix
    /\ outcome = "none"

\* load_sources, lines 29-32: json.load reads one more dict of topic_data.json
LoadItem ==
    /\ pc = "load"
    /\ UNCHANGED others_bm
    /\ Len(topic_data) < MaxTopics
    /\ \E it \in NewItems : topic_data' = Append(topic_data, it)
    /\ UNCHANGED <<pc, vocab, item_i, rows, topic_ids, top5, X, outcome>>

\* load_sources, lines 29-32: json.load reads one more [term, score] pair of
\* the dict it is reading
LoadPair ==
    /\ pc = "load"
    /\ UNCHANGED others_bm
    /\ topic_data # <<>>
    /\ EntryCount(topic_data) < MaxEntries
    /\ \E p \in Pairs :
          LET n == Len(topic_data)
              it == topic_data[n]
          IN  topic_data' =
                [topic_data EXCEPT
                    ![n] = ("keywords" :> Append(Get(it, "keywords", <<>>), p)) @@ it]
    /\ UNCHANGED <<pc, vocab, item_i, rows, topic_ids, top5, X, outcome>>

\* the call _build_topic_matrix(topic_data)
CallBuild ==
    /\ pc = "load"
    /\ UNCHANGED others_bm
    /\ pc' = "bm_start"
    /\ UNCHANGED vars_bm

\* lines 40-45
BuildVocab ==
    /\ pc = "bm_start"
    /\ UNCHANGED others_bm
    /\ vocab' = VocabOf(topic_data)
    /\ IF VocabIsEmpty(vocab')
       THEN /\ X' = EmptyMatrix
            /\ outcome' = "returned"
            /\ pc' = "bm_done"
       ELSE /\ UNCHANGED <<X, outcome>>
            /\ pc' = "bm_loop"
    /\ item_i' = 1
    /\ UNCHANGED <<topic_data, rows, topic_ids, top5>>

\* lines 46-49: a record without topic_number is skipped
LoopSkip ==
    /\ pc = "bm_loop"
    /\ UNCHANGED others_bm
    /\ item_i <= Len(topic_data)
    /\ ~HasKey(topic_data[item_i], "topic_number")
    /\ item_i' = item_i + 1
    /\ UNCHANGED <<pc, topic_data, vocab, rows, topic_ids, top5, X, outcome>>

\* lines 46-60: one pass of the loop body for a record with a topic_number
LoopRow ==
    /\ pc = "bm_loop"
    /\ UNCHANGED others_bm
    /\ item_i <= Len(topic_data)
    /\ HasKey(topic_data[item_i], "topic_number")
    /\ LET item == topic_data[item_i]
           kws == Keywords(item)
       IN  IF RowRaises(kws)
           THEN /\ outcome' = "raised"
                /\ pc' = "bm_done"
                /\ UNCHANGED <<item_i, rows, topic_ids, top5>>
           ELSE /\ rows' = Append(rows, RowVec(vocab, kws))
                /\ topic_ids' = Append(topic_ids, IntOf(item["topic_number"]))
                /\ top5' = Append(top5, Top5Of(kws))
                /\ item_i' = item_i + 1
                /\ UNCHANGED <<pc, outcome>>
    /\ UNCHANGED <<topic_data, vocab, X>>

\* lines 62-63
ReturnMatrix ==
    /\ pc = "bm_loop"
    /\ UNCHANGED others_bm
    /\ item_i > Len(topic_data)
    /\ X' = VStack(rows, vocab)
    /\ outcome' = "returned"
    /\ pc' = "bm_done"
    /\ UNCHANGED <<topic_data, vocab, item_i, rows, topic_ids, top5>>

NextBM == LoadItem \/ LoadPair \/ CallBuild \/ BuildVocab \/ LoopSkip \/ LoopRow \/ ReturnMatrix

Init == pc = "load" /\ InitBM /\ IdleSZ /\ IdleCM /\ IdleAU /\ IdleKW /\ IdleYR /\ IdleHM

Next == NextBM

Spec == Init /\ [][Next]_vars

\* The whole function as one value, for inputs other than the one in the state.
RECURSIVE RowsOf(_, _, _)
RowsOf(td, voc, n) ==
    IF n = 0 THEN <<>>
    ELSE IF HasKey(td[n], "topic_number")
         THEN Append(RowsOf(td, voc, n - 1), RowVec(voc, Keywords(td[n])))
         ELSE RowsOf(td, voc, n - 1)

BuildTopicMatrix(td) ==
    IF VocabIsEmpty(VocabOf(td)) THEN EmptyMatrix
    ELSE VStack(RowsOf(td, VocabOf(td), Len(td)), VocabOf(td))

-----------------------------------------------------------------------------
(* float64 arithmetic, for MinMaxScaler                                     *)

\* Natural numbers of any size, as lists of 24-bit limbs, least significant
\* first: what float64 arithmetic needs and 32-bit integers cannot hold.
Limb == 16777216

RECURSIVE Trim(_)
Trim(a) == IF a # <<>> /\ a[Len(a)] = 0 THEN Trim(SubSeq(a, 1, Len(a) - 1)) ELSE a

NatOf(n) == IF n = 0 THEN <<>> ELSE <<n>>

RECURSIVE MulSmallC(_, _, _)
MulSmallC(a, k, carry) ==
    IF a = <<>> THEN NatOf(carry)
    ELSE LET v == a[1] * k + carry
         IN  <<v % Limb>> \o MulSmallC(Tail(a), k, v \div Limb)

\* a * k for 0 <= k < 128
MulSmall(a, k) == Trim(MulSmallC(a, k, 0))

RECURSIVE DivRem(_, _)
DivRem(a, k) ==
    IF a = <<>> THEN [q |-> <<>>, r |-> 0]
    ELSE LET hi == DivRem(Tail(a), k)
             cur == hi.r * Limb + a[1]
         IN  [q |-> <<cur \div k>> \o hi.q, r |-> cur % k]

\* floor(a / k) for 0 < k < 128
DivSmall(a, k) == Trim(DivRem(a, k).q)

RECURSIVE AddC(_, _, _)
AddC(a, b, carry) ==
    IF a = <<>> /\ b = <<>> THEN NatOf(carry)
    ELSE LET x == IF a = <<>> THEN 0 ELSE a[1]
             y == IF b = <<>> THEN 0 ELSE b[1]
             v == x + y + carry
         IN  <<v % Limb>> \o AddC(IF a = <<>> THEN a ELSE Tail(a),
                                   IF b = <<>> THEN b ELSE Tail(b), v \div Limb)

Add(a, b) == Trim(AddC(a, b, 0))

RECURSIVE SubB(_, _, _)
SubB(a, b, borrow) ==
    IF a = <<>> THEN <<>>
    ELSE LET y == IF b = <<>> THEN 0 ELSE b[1]
             v == a[1] - y - borrow
         IN  <<IF v < 0 THEN v + Limb ELSE v>>
                \o SubB(Tail(a), IF b = <<>> THEN b ELSE Tail(b), IF v < 0 THEN 1 ELSE 0)

\* a - b for a >= b
Sub(a, b) == Trim(SubB(a, b, 0))

\* -1, 0, 1 as a < b, a = b, a > b (a, b trimmed)
RECURSIVE CmpAt(_, _, _)
CmpAt(a, b, i) ==
    IF i = 0 THEN 0
    ELSE IF a[i] < b[i] THEN -1
    ELSE IF a[i] > b[i] THEN 1
    ELSE CmpAt(a, b, i - 1)

Cmp(a, b) ==
    IF Len(a) < Len(b) THEN -1
    ELSE IF Len(a) > Len(b) THEN 1
    ELSE CmpAt(a, b, Len(a))

RECURSIVE Pow2(_)
Pow2(n) == IF n = 0 THEN 1 ELSE 2 * Pow2(n - 1)

RECURSIVE SmallBitLen(_)
SmallBitLen(n) == IF n = 0 THEN 0 ELSE 1 + SmallBitLen(n \div 2)

BitLen(a) == IF a = <<>> THEN 0 ELSE 24 * (Len(a) - 1) + SmallBitLen(a[Len(a)])

RECURSIVE Shl(_, _)
Shl(a, n) == IF n = 0 THEN a
             ELSE IF n >= 6 THEN Shl(MulSmall(a, 64), n - 6)
             ELSE MulSmall(a, Pow2(n))

RECURSIVE Shr(_, _)
Shr(a, n) == IF n = 0 THEN a
             ELSE IF n >= 6 THEN Shr(DivSmall(a, 64), n - 6)
             ELSE DivSmall(a, Pow2(n))

IsOdd(a) == a # <<>> /\ a[1] % 2 = 1

\* a / 2^d rounded to the nearest integer, ties to even (d > 0)
RoundShift(a, d) ==
    LET q == Shr(a, d)
        rem == Sub(a, Shl(q, d))
        c == Cmp(rem, Shl(<<1>>, d - 1))
    IN  IF c > 0 \/ (c = 0 /\ IsOdd(q)) THEN Add(q, <<1>>) ELSE q

\* A float64 value is [neg, m, e], standing for (-1)^neg * m * 2^e; every
\* operation computes its exact result and rounds it to 53 significant bits,
\* ties to even, as IEEE 754 does.  No value here leaves the normal range.
Mantissa == 53

\* round to nearest even at 53 significant bits
Fl(v) ==
    IF BitLen(v.m) <= Mantissa THEN v
    ELSE LET d == BitLen(v.m) - Mantissa
         IN  [neg |-> v.neg, m |-> RoundShift(v.m, d), e |-> v.e + d]

FloatOfInt(n) == [neg |-> n < 0, m |-> NatOf(IF n < 0 THEN -n ELSE n), e |-> 0]

\* float(n) / float(k) for 0 <= n, 0 < k < 128: the quotient to 60 fractional
\* bits, with one more bit that is 1 when the division left a remainder
FDivInt(n, k) ==
    LET d == DivRem(Shl(NatOf(n), 60), k)
        q2 == MulSmall(Trim(d.q), 2)
    IN  Fl([neg |-> FALSE,
            m |-> IF d.r = 0 THEN q2 ELSE Add(q2, <<1>>),
            e |-> -61])

\* v * float(k) for 0 <= k < 128
FMulInt(v, k) == Fl([neg |-> v.neg, m |-> MulSmall(v.m, k), e |-> v.e])

FNeg(v) == [v EXCEPT !.neg = ~@]

\* u + v
FAdd(u, v) ==
    LET e == IF u.e < v.e THEN u.e ELSE v.e
        a == Shl(u.m, u.e - e)
        b == Shl(v.m, v.e - e)
        c == Cmp(a, b)
    IN  Fl(IF u.neg = v.neg THEN [neg |-> u.neg, m |-> Add(a, b), e |-> e]
           ELSE IF c >= 0 THEN [neg |-> u.neg /\ c # 0, m |-> Sub(a, b), e |-> e]
           ELSE [neg |-> v.neg, m |-> Sub(b, a), e |-> e])

\* -1, 0, 1 as u < v, u = v, u > v
FCmp(u, v) ==
    LET d == FAdd(u, FNeg(v))
    IN  IF d.m = <<>> THEN 0 ELSE IF d.neg THEN -1 ELSE 1

-----------------------------------------------------------------------------
(* home._topic_sizes                                                        *)

MaxIds == 2             \* length of topic_ids

MaxRows == 2            \* rows of topics.csv and blogs.csv together

SizeTopicIds == {0, 1, 2}

\* str(t)
StrOf(t) == <<"0", "1", "2", "3">>[t + 1]

\* column layouts of topics.csv: with a Frequency column, or without one (the
\* count column is then the last column)
TopicsLayouts == {<<"Topic", "Frequency">>, <<"Topic", "Docs">>}

TableTopics == {0, 1}

TableCounts == {0, 25}

BlogsLayouts == {<<"title", "topic_label">>, <<"title">>}

BlogLabels == {"A", "B"}

LabelMaps == {<<>>, ("0" :> "A") @@ ("1" :> "B")}

IdSeqs == UNION {[1..n -> SizeTopicIds] : n \in 1..MaxIds}

\* DataFrame.empty: no rows or no columns
DfEmpty(df) == df.rows = <<>> \/ df.columns = <<>>

HasColumn(df, c) == c \in Range(df.columns)

\* line 67
CountCol(df) ==
    IF HasColumn(df, "Frequency") THEN "Frequency" ELSE df.columns[Len(df.columns)]

\* line 68: groupby("Topic")[count_col].sum(); the index holds the topic ids
\* that have a row
TotalsIndex(df) == {df.rows[k]["Topic"] : k \in DOMAIN df.rows}

TotalsSum(df, t) ==
    SumSeq([k \in DOMAIN df.rows |->
              IF df.rows[k]["Topic"] = t THEN df.rows[k][CountCol(df)] ELSE 0])

TotalsGetZeroDefault(df, t) == IF t \in TotalsIndex(df) THEN TotalsSum(df, t) ELSE 0

\* line 69: totals.get(t, 1.0)
TotalsGet(df, t) == IF t \in TotalsIndex(df) THEN TotalsSum(df, t) ELSE 1

\* line 71: value_counts(): the index holds the labels that occur
LabelCount(df, lab) ==
    Cardinality({k \in DOMAIN df.rows : df.rows[k]["topic_label"] = lab})

\* line 72: per_label.get(label, 1.0)
PerLabelGet(df, lab) == IF LabelCount(df, lab) > 0 THEN LabelCount(df, lab) ELSE 1

\* line 72: labels_map.get(str(t), str(t))
LabelOf(lm, t) == Get(lm, StrOf(t), StrOf(t))

\* lines 66-74: which source the raw values are read from
UsesTopics(tdf) == ~DfEmpty(tdf)

UsesBlogs(tdf, bdf) == ~UsesTopics(tdf) /\ ~DfEmpty(bdf) /\ HasColumn(bdf, "topic_label")

FeatureMin == 8

FeatureMax == 28

\* sklearn _handle_zeros_in_scale: a zero range is replaced by 1
HandleZeros(r) == IF r = 0 THEN 1 ELSE r

\* line 76, MinMaxScaler((8, 28)).fit on one column with minimum lo and maximum
\* hi: scale_ = (28 - 8) / handle_zeros(hi - lo), min_ = 8 - lo * scale_
Fit(lo, hi) ==
    LET scale == FDivInt(FeatureMax - FeatureMin, HandleZeros(hi - lo))
    IN  [scale |-> scale,
         min |-> FAdd(FloatOfInt(FeatureMin), FNeg(FMulInt(scale, lo)))]

\* line 76, MinMaxScaler.transform: X *= scale_; X += min_ (clip is off)
Transform(x, fit) == FAdd(FMulInt(fit.scale, x), fit.min)

InitSZ ==
    /\ sz_topic_ids \in IdSeqs
    /\ topics_df \in {[columns |-> c, rows |-> <<>>] : c \in TopicsLayouts}
    /\ blogs_df \in {[columns |-> c, rows |-> <<>>] : c \in BlogsLayouts}
    /\ labels_map \in LabelMaps
    /\ raw = <<>>
    /\ sizes = <<>>

\* load_sources, line 25: one more row of topics.csv
LoadTopicsRow ==
    /\ pc = "sz_load"
    /\ UNCHANGED others_sz
    /\ Len(topics_df.rows) + Len(blogs_df.rows) < MaxRows
    /\ \E t \in TableTopics, n \in TableCounts :
          topics_df' =
            [topics_df EXCEPT
               !.rows = Append(@, ("Topic" :> t) @@ (CountCol(topics_df) :> n))]
    /\ UNCHANGED <<pc, sz_topic_ids, blogs_df, labels_map, raw, sizes>>

\* load_sources, lines 33-36: one more row of blogs.csv
LoadBlogsRow ==
    /\ pc = "sz_load"
    /\ UNCHANGED others_sz
    /\ Len(topics_df.rows) + Len(blogs_df.rows) < MaxRows
    /\ \E lab \in BlogLabels :
          blogs_df' =
            [blogs_df EXCEPT
               !.rows = Append(@, IF HasColumn(blogs_df, "topic_label")
                                  THEN ("title" :> "t") @@ ("topic_label" :> lab)
                                  ELSE ("title" :> "t"))]
    /\ UNCHANGED <<pc, sz_topic_ids, topics_df, labels_map, raw, sizes>>

\* the call _topic_sizes(topic_ids, topics_df, blogs_df, labels_map)
CallSizes ==
    /\ pc = "sz_load"
    /\ UNCHANGED others_sz
    /\ pc' = "sz_start"
    /\ UNCHANGED vars_sz

\* lines 66-69
RawFromTopics ==
    /\ pc = "sz_start"
    /\ UNCHANGED others_sz
    /\ UsesTopics(topics_df)
    /\ raw' = [k \in DOMAIN sz_topic_ids |-> TotalsGet(topics_df, sz_topic_ids[k])]
    /\ pc' = "sz_scale"
    /\ UNCHANGED <<sz_topic_ids, topics_df, blogs_df, labels_map, sizes>>

\* lines 70-72
RawFromBlogs ==
    /\ pc = "sz_start"
    /\ UNCHANGED others_sz
    /\ UsesBlogs(topics_df, blogs_df)
    /\ raw' = [k \in DOMAIN sz_topic_ids |->
                 PerLabelGet(blogs_df, LabelOf(labels_map, sz_topic_ids[k]))]
    /\ pc' = "sz_scale"
    /\ UNCHANGED <<sz_topic_ids, topics_df, blogs_df, labels_map, sizes>>

\* lines 73-74
RawUniform ==
    /\ pc = "sz_start"
    /\ UNCHANGED others_sz
    /\ ~UsesTopics(topics_df)
    /\ ~UsesBlogs(topics_df, blogs_df)
    /\ raw' = [k \in DOMAIN sz_topic_ids |-> 1]
    /\ pc' = "sz_scale"
    /\ UNCHANGED <<sz_topic_ids, topics_df, blogs_df, labels_map, sizes>>

\* lines 76-77
ScaleSizes ==
    /\ pc = "sz_scale"
    /\ UNCHANGED others_sz
    /\ LET fit == Fit(Min(Range(raw)), Max(Range(raw)))
       IN  sizes' = [k \in DOMAIN raw |-> Transform(raw[k], fit)]
    /\ pc' = "sz_done"
    /\ UNCHANGED <<sz_topic_ids, topics_df, blogs_df, labels_map, raw>>

NextSZ ==
    \/ LoadTopicsRow \/ LoadBlogsRow \/ CallSizes
    \/ RawFromTopics \/ RawFromBlogs \/ RawUniform \/ ScaleSizes

\* _build_topic_matrix is not running
IdleBM ==
    /\ topic_data = <<>>
    /\ vocab = <<>>
    /\ item_i = 0
    /\ rows = <<>>
    /\ topic_ids = <<>>
    /\ top5 = <<>>
    /\ X = EmptyMatrix
    /\ outcome = "none"

InitSizes == pc = "sz_load" /\ InitSZ /\ IdleBM /\ IdleCM /\ IdleAU /\ IdleKW /\ IdleYR /\ IdleHM

SpecSizes == InitSizes /\ [][NextSZ]_vars

-----------------------------------------------------------------------------
(* Properties of _topic_sizes                                               *)

RowsOfTopic(t) == {k \in DOMAIN topics_df.rows : topics_df.rows[k]["Topic"] = t}

\* the document counts of topic id t, summed
CountSum(t) ==
    SumSeq([k \in DOMAIN topics_df.rows |->
              IF k \in RowsOfTopic(t)
              THEN topics_df.rows[k][topics_df.columns[2]] ELSE 0])

DocsWithLabel(lab) ==
    Cardinality({k \in DOMAIN blogs_df.rows : blogs_df.rows[k]["topic_label"] = lab})

TopicLabel(t) ==
    IF StrOf(t) \in DOMAIN labels_map THEN labels_map[StrOf(t)] ELSE StrOf(t)

TableAvailable == topics_df.rows # <<>>

LabelsAvailable == blogs_df.rows # <<>> /\ "topic_label" \in Range(blogs_df.columns)

RawComputed == pc \in {"sz_scale", "sz_done"}

\* C5 as stated: table first, with 1.0 for a missing topic id or a sum of 0;
\* else the number of documents carrying the label; else 1.0.
C5_Original ==
    RawComputed =>
        /\ Len(raw) = Len(sz_topic_ids)
        /\ \A k \in DOMAIN raw :
              LET t == sz_topic_ids[k]
              IN  raw[k] =
                    IF TableAvailable
                    THEN (IF RowsOfTopic(t) = {} \/ CountSum(t) = 0 THEN 1 ELSE CountSum(t))
                    ELSE IF LabelsAvailable THEN DocsWithLabel(TopicLabel(t))
                    ELSE 1

\* C5 amended: if the topic-frequency table is non-empty, the raw popularity
\* is the sum of the document counts of the topic id, 0 included, and 1.0 only
\* when the topic id has no row in the table; otherwise, if per-document label
\* data is available, the number of documents carrying the topic's label, and
\* 1.0 when no document carries it; otherwise 1.0.  A lower-priority source
\* is never used while a higher-priority one is available.
C5_RawPriority ==
    RawComputed =>
        /\ Len(raw) = Len(sz_topic_ids)
        /\ \A k \in DOMAIN raw :
              LET t == sz_topic_ids[k]
              IN  raw[k] =
                    IF TableAvailable
                    THEN (IF RowsOfTopic(t) = {} THEN 1 ELSE CountSum(t))
                    ELSE IF LabelsAvailable
                    THEN (IF DocsWithLabel(TopicLabel(t)) = 0 THEN 1
                          ELSE DocsWithLabel(TopicLabel(t)))
                    ELSE 1

\* C5 witness: both sources are available and would give different values,
\* the table is used, and a topic whose counts sum to 0 has raw popularity 0.
C5_Witness ==
    /\ RawComputed
    /\ TableAvailable /\ LabelsAvailable
    /\ \E k \in DOMAIN raw :
          /\ RowsOfTopic(sz_topic_ids[k]) # {}
          /\ raw[k] = 0
          /\ DocsWithLabel(TopicLabel(sz_topic_ids[k])) = 1
    /\ \E k \in DOMAIN raw : RowsOfTopic(sz_topic_ids[k]) = {} /\ raw[k] = 1

\* C6 as stated: every size lies in [8, 28], and a higher raw popularity never
\* gives a smaller size, also when all raw values are equal.
C6_Original ==
    pc = "sz_done" =>
        /\ Len(sizes) = Len(raw)
        /\ \A k \in DOMAIN sizes :
              /\ FCmp(sizes[k], FloatOfInt(8)) >= 0
              /\ FCmp(sizes[k], FloatOfInt(28)) <= 0
        /\ \A k, m \in DOMAIN sizes :
              raw[k] > raw[m] => FCmp(sizes[k], sizes[m]) >= 0

\* What does hold of the sizes: none is below 8, the smallest raw value gives
\* exactly 8, a higher raw value never gives a smaller size, and equal raw
\* values all give 8.
SizesLowerBoundMonotone ==
    pc = "sz_done" =>
        /\ Len(sizes) = Len(raw)
        /\ \A k \in DOMAIN sizes :
              /\ FCmp(sizes[k], FloatOfInt(8)) >= 0
              /\ raw[k] = Min(Range(raw)) => FCmp(sizes[k], FloatOfInt(8)) = 0
        /\ \A k, m \in DOMAIN sizes :
              raw[k] > raw[m] => FCmp(sizes[k], sizes[m]) >= 0

\* a size above 28 is reached
SizeAboveMaxReached ==
    /\ pc = "sz_done"
    /\ \E k \in DOMAIN sizes : FCmp(sizes[k], FloatOfInt(28)) > 0

-----------------------------------------------------------------------------
(* home._color_map                                                          *)

MaxDistinct == 9        \* distinct labels in the input

MaxRepeats == 1         \* elements of the input that repeat an earlier label

\* line 80
green_palette ==
    <<"#2ecc40", "#27ae60", "#16a085", "#229954",
      "#1e8449", "#239b56", "#28b463", "#58d68d">>

\* A label of the input is a string or an integer; the string str() gives for
\* it is identified by a code, the same for the integer n and the string "n".
\* line 81: astype(str)
AsStr(l) == l.v

SeenLabels(ls) == {AsStr(ls[k]) : k \in DOMAIN ls}

\* The inputs: labels are first met in ascending or in descending order of
\* their codes (so that first-encounter order and sorted order differ), and
\* an earlier label may come again, as a string or as an integer.
CanLoadFresh(ls, n) ==
    LET seen == SeenLabels(ls)
    IN  /\ n \notin seen
        /\ \/ seen = {} /\ n \in {1, MaxDistinct}
           \/ seen # {} /\ 1 \in seen /\ n = Max(seen) + 1
           \/ seen # {} /\ MaxDistinct \in seen /\ n = Min(seen) - 1

CanLoadRepeat(ls, n) ==
    /\ n \in SeenLabels(ls)
    /\ Len(ls) - Cardinality(SeenLabels(ls)) < MaxRepeats

UniqueSorted(ls) == Sorted(Range(ls))

\* line 81: unique(): the distinct values, in order of first appearance
RECURSIVE Unique(_)
Unique(ls) ==
    IF ls = <<>> THEN <<>>
    ELSE LET front == Unique(SubSeq(ls, 1, Len(ls) - 1))
             last == ls[Len(ls)]
         IN  IF last \in Range(front) THEN front ELSE Append(front, last)

\* line 82: green_palette[i % len(green_palette)] for the 0-based index i
PaletteAt(i) == green_palette[(i % Len(green_palette)) + 1]

InitCM == cm_labels = <<>> /\ cats = <<>> /\ cmap = <<>>

\* show, lines 128 and 180: one more value of the label column
LoadLabel ==
    /\ pc = "cm_load"
    /\ UNCHANGED others_cm
    /\ \E n \in 1..MaxDistinct :
          \/ /\ CanLoadFresh(cm_labels, n)
             /\ cm_labels' = Append(cm_labels, [kind |-> "str", v |-> n])
          \/ /\ CanLoadRepeat(cm_labels, n)
             /\ \E kind \in {"str", "int"} :
                   cm_labels' = Append(cm_labels, [kind |-> kind, v |-> n])
    /\ UNCHANGED <<pc, cats, cmap>>

\* the call _color_map(labels)
CallColorMap ==
    /\ pc = "cm_load"
    /\ UNCHANGED others_cm
    /\ pc' = "cm_unique"
    /\ UNCHANGED vars_cm

\* line 81
UniqueLabels ==
    /\ pc = "cm_unique"
    /\ UNCHANGED others_cm
    /\ cats' = Unique([k \in DOMAIN cm_labels |-> AsStr(cm_labels[k])])
    /\ pc' = "cm_assign"
    /\ UNCHANGED <<cm_labels, cmap>>

\* line 82
AssignColours ==
    /\ pc = "cm_assign"
    /\ UNCHANGED others_cm
    /\ cmap' = [lab \in Range(cats) |->
                  PaletteAt((CHOOSE i \in DOMAIN cats : cats[i] = lab) - 1)]
    /\ pc' = "cm_done"
    /\ UNCHANGED <<cm_labels, cats>>

NextCM == LoadLabel \/ CallColorMap \/ UniqueLabels \/ AssignColours

InitColours == pc = "cm_load" /\ InitCM /\ IdleBM /\ IdleSZ /\ IdleAU /\ IdleKW /\ IdleYR /\ IdleHM

SpecColours == InitColours /\ [][NextCM]_vars

-----------------------------------------------------------------------------
(* Properties of _color_map                                                 *)

FirstAt(lab) == Min({k \in DOMAIN cm_labels : cm_labels[k].v = lab})

\* how many distinct labels are first met before lab is
Rank(lab) ==
    Cardinality({cm_labels[k].v : k \in {j \in DOMAIN cm_labels : j < FirstAt(lab)}})

\* C7: the i-th distinct label in first-encounter order (0-based) gets
\* palette[i mod 8]; the mapping has one colour per label and is a function
\* of the label sequence alone, and the 9th distinct label gets the colour of
\* the 1st.
C7_ColourByFirstEncounter ==
    pc = "cm_done" =>
        /\ DOMAIN cmap = {cm_labels[k].v : k \in DOMAIN cm_labels}
        /\ \A lab \in DOMAIN cmap :
              cmap[lab] =
                <<"#2ecc40", "#27ae60", "#16a085", "#229954",
                  "#1e8449", "#239b56", "#28b463", "#58d68d">>[(Rank(lab) % 8) + 1]
        /\ \A a \in DOMAIN cmap :
              Rank(a) = 0 =>
                 \A b \in DOMAIN cmap : Rank(b) = 8 => cmap[b] = cmap[a]

\* C7 witness: nine distinct labels first met in descending order, one of
\* them met again as an integer, and the 9th has the colour of the 1st.
C7_Witness ==
    /\ pc = "cm_done"
    /\ Len(cats) = 9
    /\ cats[1] = 9 /\ cats[9] = 1
    /\ \E k \in DOMAIN cm_labels : cm_labels[k].kind = "int"
    /\ cmap[1] = "#2ecc40" /\ cmap[9] = "#2ecc40" /\ cmap[2] = "#58d68d"

-----------------------------------------------------------------------------
(* topics.show, "Top Voices": the author counts of the pie chart            *)

MaxArticles == 8        \* rows of selected_articles_df

\* the values of the author column; "nan" is a missing author
AuthorValues == <<"nan", "A", "B", "C", "D">>

AuthorNames == {"A", "B", "C", "D"}

ArticlesLayouts == {<<"title", "author">>, <<"title">>}

AuthorCode(a) == CHOOSE i \in DOMAIN AuthorValues : AuthorValues[i] = a

\* the articles with author a
ArticlesOf(df, a) == {k \in DOMAIN df.rows : df.rows[k]["author"] = a}

\* line 156, value_counts(): the authors that occur, "nan" dropped
CountedAuthors(df) == {a \in AuthorNames : ArticlesOf(df, a) # {}}

\* line 156, value_counts().reset_index(): one row per author with the number
\* of its articles, by descending count; the order among equal counts is
\* not fixed
ValueCounts(df) ==
    LET S == CountedAuthors(df)
        n == Cardinality(S)
    IN  {[k \in 1..n |-> [Author |-> o[k], Count |-> Cardinality(ArticlesOf(df, o[k]))]] :
           o \in {f \in [1..n -> S] :
                    /\ \A i, j \in 1..n : i # j => f[i] # f[j]
                    /\ \A i, j \in 1..n :
                          i < j => Cardinality(ArticlesOf(df, f[i])) >=
                                   Cardinality(ArticlesOf(df, f[j]))}}

\* line 160: author_counts['Count'] > 1
IsTopAuthor(r) == r.Count > 1

\* line 161: author_counts['Count'] == 1
IsSingle(r) == r.Count = 1

\* line 161: [...]['Count'].sum()
CountTotal(rs) == SumSeq([k \in DOMAIN rs |-> rs[k].Count])

AlwaysAppendOthers(n) == TRUE

\* line 162
AppendsOthers(n) == n > 0

\* lines 162-166
WithOthers(top, n) ==
    IF AppendsOthers(n) THEN Append(top, [Author |-> "Others", Count |-> n]) ELSE top

InitAU ==
    /\ selected_articles_df \in
          {[columns |-> c, rows |-> <<>>] : c \in ArticlesLayouts}
    /\ author_counts = <<>>
    /\ top_authors_df = <<>>
    /\ others_count = 0
    /\ pie_chart_data = <<>>
    /\ pie_result = "none"

\* line 87: one more selected article; the rows come grouped by author
LoadArticle ==
    /\ pc = "au_load"
    /\ UNCHANGED others_au
    /\ Len(selected_articles_df.rows) < MaxArticles
    /\ \E a \in Range(AuthorValues) :
          /\ \A k \in DOMAIN selected_articles_df.rows :
                HasColumn(selected_articles_df, "author") =>
                   AuthorCode(selected_articles_df.rows[k]["author"]) <= AuthorCode(a)
          /\ HasColumn(selected_articles_df, "author") \/ a = "nan"
          /\ selected_articles_df' =
               [selected_articles_df EXCEPT
                  !.rows = Append(@, IF HasColumn(selected_articles_df, "author")
                                     THEN ("title" :> "t") @@ ("author" :> a)
                                     ELSE ("title" :> "t"))]
    /\ UNCHANGED <<pc, author_counts, top_authors_df, others_count, pie_chart_data,
                   pie_result>>

\* line 154: the "Top Voices" column starts
StartPie ==
    /\ pc = "au_load"
    /\ UNCHANGED others_au
    /\ pc' = "au_start"
    /\ UNCHANGED vars_au

\* lines 155, 193-194
NoBlogs ==
    /\ pc = "au_start"
    /\ UNCHANGED others_au
    /\ DfEmpty(selected_articles_df) \/ ~HasColumn(selected_articles_df, "author")
    /\ pie_result' = "info_no_blogs"
    /\ pc' = "au_done"
    /\ UNCHANGED <<selected_articles_df, author_counts, top_authors_df, others_count,
                   pie_chart_data>>

\* lines 155-157
CountAuthors ==
    /\ pc = "au_start"
    /\ UNCHANGED others_au
    /\ ~DfEmpty(selected_articles_df) /\ HasColumn(selected_articles_df, "author")
    /\ author_counts' \in ValueCounts(selected_articles_df)
    /\ pc' = "au_split"
    /\ UNCHANGED <<selected_articles_df, top_authors_df, others_count, pie_chart_data,
                   pie_result>>

\* lines 160-161
SplitAuthors ==
    /\ pc = "au_split"
    /\ UNCHANGED others_au
    /\ top_authors_df' = SelectSeq(author_counts, IsTopAuthor)
    /\ others_count' = CountTotal(SelectSeq(author_counts, IsSingle))
    /\ pc' = "au_concat"
    /\ UNCHANGED <<selected_articles_df, author_counts, pie_chart_data, pie_result>>

\* lines 162-166
BuildPieData ==
    /\ pc = "au_concat"
    /\ UNCHANGED others_au
    /\ pie_chart_data' = WithOthers(top_authors_df, others_count)
    /\ pc' = "au_show"
    /\ UNCHANGED <<selected_articles_df, author_counts, top_authors_df, others_count,
                   pie_result>>

\* lines 168-192
ShowPie ==
    /\ pc = "au_show"
    /\ UNCHANGED others_au
    /\ pie_result' = IF pie_chart_data # <<>> THEN "chart" ELSE "info_no_authors"
    /\ pc' = "au_done"
    /\ UNCHANGED <<selected_articles_df, author_counts, top_authors_df, others_count,
                   pie_chart_data>>

NextAU ==
    \/ LoadArticle \/ StartPie \/ NoBlogs \/ CountAuthors \/ SplitAuthors
    \/ BuildPieData \/ ShowPie

InitAuthors == pc = "au_load" /\ InitAU /\ IdleBM /\ IdleSZ /\ IdleCM /\ IdleKW /\ IdleYR /\ IdleHM

SpecAuthors == InitAuthors /\ [][NextAU]_vars

-----------------------------------------------------------------------------
(* Properties of the author bucketing                                       *)

\* the number of selected articles of author a
ArticleCount(a) ==
    Cardinality({k \in DOMAIN selected_articles_df.rows :
                   selected_articles_df.rows[k]["author"] = a})

KeptAuthors == {a \in {"A", "B", "C", "D"} : ArticleCount(a) > 1}

RemovedAuthors == {a \in {"A", "B", "C", "D"} : ArticleCount(a) = 1}

PieRowsOf(a) == {k \in DOMAIN pie_chart_data : pie_chart_data[k].Author = a}

PieDataBuilt == pc \in {"au_show", "au_done"} /\ pie_result # "info_no_blogs"

\* C8: every author with more than one article is kept with its count, every
\* author with exactly one article is removed, and one 'Others' category with
\* the sum of the removed counts is appended if and only if that sum is
\* greater than 0.
C8_OthersBucket ==
    PieDataBuilt =>
        /\ \A a \in KeptAuthors :
              /\ Cardinality(PieRowsOf(a)) = 1
              /\ \A k \in PieRowsOf(a) : pie_chart_data[k].Count = ArticleCount(a)
        /\ \A a \in {"nan", "A", "B", "C", "D"} \ KeptAuthors : PieRowsOf(a) = {}
        /\ Cardinality(PieRowsOf("Others")) = IF RemovedAuthors # {} THEN 1 ELSE 0
        /\ RemovedAuthors # {} =>
              /\ pie_chart_data[Len(pie_chart_data)].Author = "Others"
              /\ pie_chart_data[Len(pie_chart_data)].Count = Cardinality(RemovedAuthors)
        /\ Len(pie_chart_data) =
              Cardinality(KeptAuthors) + (IF RemovedAuthors # {} THEN 1 ELSE 0)

\* C8 witness: the counts {A:5, B:1, C:1, D:1} give {A:5, Others:3}.
C8_Witness ==
    /\ pc = "au_done"
    /\ pie_result = "chart"
    /\ ArticleCount("A") = 5 /\ ArticleCount("B") = 1
    /\ ArticleCount("C") = 1 /\ ArticleCount("D") = 1
    /\ pie_chart_data = <<[Author |-> "A", Count |-> 5], [Author |-> "Others", Count |-> 3]>>

\* the bucketing without an 'Others' category: no author has exactly one article
C8_NoOthersReached ==
    /\ pc = "au_done"
    /\ pie_result = "chart"
    /\ ArticleCount("A") = 2 /\ ArticleCount("B") = 3
    /\ \A k \in DOMAIN pie_chart_data : pie_chart_data[k].Author # "Others"

-----------------------------------------------------------------------------
(* topics.show, "Top 10 Keywords": the ranking of the bar chart             *)

MaxKeywords == 11       \* distinct keywords in topic_data

MaxRepeatKw == 1        \* pairs of topic_data that repeat an earlier keyword

\* line 135: head(10)
TopN == 10

KwTopicNums == {0, 1}

\* the keywords that occur more than once
RepeatKeywords == {2}

\* selected_topic_numbers, lines 81-85
KwSelections == {<<0>>, <<1, 0>>}

\* all (keyword, score) pairs of topic_data, record after record
RECURSIVE AllPairs(_)
AllPairs(td) ==
    IF td = <<>> THEN <<>>
    ELSE AllPairs(SubSeq(td, 1, Len(td) - 1)) \o td[Len(td)].keywords

SeenKeywords(td) == {p[1] : p \in Range(AllPairs(td))}

\* The inputs: a keyword is a code, in lexicographic order of the keywords;
\* keywords are first met in ascending or in descending order, the first
\* pair of keyword n has score n, and a repeating pair has score 1.
CanLoadFreshKw(td, n) ==
    LET seen == SeenKeywords(td)
    IN  /\ n \notin seen
        /\ \/ seen = {} /\ n \in {1, MaxKeywords}
           \/ seen # {} /\ 1 \in seen /\ n = Max(seen) + 1
           \/ seen # {} /\ MaxKeywords \in seen /\ n = Min(seen) - 1

CanLoadRepeatKw(td, n) ==
    /\ n \in SeenKeywords(td) \cap RepeatKeywords
    /\ Len(AllPairs(td)) - Cardinality(SeenKeywords(td)) < MaxRepeatKw

\* line 127: next((item for item in topic_data if
\* item.get('topic_number') == topic_number), None); <<>> is None
FirstItem(td, t) ==
    LET hits == {k \in DOMAIN td : td[k].topic_number = t}
    IN  IF hits = {} THEN <<>> ELSE <<td[Min(hits)]>>

\* lines 125-129
RECURSIVE Gather(_, _)
Gather(td, sel) ==
    IF sel = <<>> THEN <<>>
    ELSE LET item == FirstItem(td, sel[Len(sel)])
             front == Gather(td, SubSeq(sel, 1, Len(sel) - 1))
         IN  IF item # <<>> /\ item[1].keywords # <<>>
             THEN front \o item[1].keywords
             ELSE front

\* line 133, groupby('Keyword'): the distinct keywords
GroupKeys(list) == {list[k][1] : k \in DOMAIN list}

LastScore(list, kw) ==
    list[Max({k \in DOMAIN list : list[k][1] = kw})][2]

\* line 133, ['Score'].sum(): the scores of one keyword, summed
SummedScore(list, kw) ==
    SumSeq([k \in DOMAIN list |-> IF list[k][1] = kw THEN list[k][2] ELSE 0])

RECURSIVE Perms(_)
Perms(S) ==
    IF S = {} THEN {<<>>}
    ELSE UNION {{<<x>> \o p : p \in Perms(S \ {x})} : x \in S}

\* line 133, sort_values('Score', ascending=False): the default sort is not
\* stable, so keywords with equal scores may come in any order
RECURSIVE DescOrders(_, _)
DescOrders(list, S) ==
    IF S = {} THEN {<<>>}
    ELSE LET m == Max({SummedScore(list, kw) : kw \in S})
             top == {kw \in S : SummedScore(list, kw) = m}
         IN  {p \o rest : p \in Perms(top), rest \in DescOrders(list, S \ top)}

\* line 133
GroupAndSort(list) ==
    {[i \in DOMAIN o |-> [Keyword |-> o[i], Score |-> SummedScore(list, o[i])]] :
       o \in DescOrders(list, GroupKeys(list))}

InitKW ==
    /\ kw_topic_data = <<>>
    /\ kw_selected = <<>>
    /\ keywords_list = <<>>
    /\ keywords_df = <<>>
    /\ bar_data = <<>>
    /\ bar_result = "none"

\* load_data, lines 19-20: one more record of topic_data.json
LoadRecord ==
    /\ pc = "kw_load"
    /\ UNCHANGED others_kw
    /\ Len(kw_topic_data) < Cardinality(KwTopicNums)
    /\ \E t \in KwTopicNums :
          kw_topic_data' = Append(kw_topic_data, [topic_number |-> t, keywords |-> <<>>])
    /\ UNCHANGED <<pc, kw_selected, keywords_list, keywords_df, bar_data, bar_result>>

\* load_data, lines 19-20: one more pair of the last record
LoadKeyword ==
    /\ pc = "kw_load"
    /\ UNCHANGED others_kw
    /\ kw_topic_data # <<>>
    /\ \E n \in 1..MaxKeywords :
          \E w \in {n, 1} :
             /\ \/ CanLoadFreshKw(kw_topic_data, n) /\ w = n
                \/ CanLoadRepeatKw(kw_topic_data, n) /\ w = 1
             /\ kw_topic_data' =
                  [kw_topic_data EXCEPT
                     ![Len(kw_topic_data)].keywords = Append(@, <<n, w>>)]
    /\ UNCHANGED <<pc, kw_selected, keywords_list, keywords_df, bar_data, bar_result>>

\* lines 81-85, 123-125: the topics are selected and the column starts
StartBar ==
    /\ pc = "kw_load"
    /\ UNCHANGED others_kw
    /\ kw_selected' \in KwSelections
    /\ pc' = "kw_gather"
    /\ UNCHANGED <<kw_topic_data, keywords_list, keywords_df, bar_data, bar_result>>

\* lines 125-129
GatherKeywords ==
    /\ pc = "kw_gather"
    /\ UNCHANGED others_kw
    /\ keywords_list' = Gather(kw_topic_data, kw_selected)
    /\ pc' = "kw_rank"
    /\ UNCHANGED <<kw_topic_data, kw_selected, keywords_df, bar_data, bar_result>>

\* lines 131-133
RankKeywords ==
    /\ pc = "kw_rank"
    /\ UNCHANGED others_kw
    /\ keywords_list # <<>>
    /\ keywords_df' \in GroupAndSort(keywords_list)
    /\ pc' = "kw_show"
    /\ UNCHANGED <<kw_topic_data, kw_selected, keywords_list, bar_data, bar_result>>

\* lines 131, 148-149
NoKeywords ==
    /\ pc = "kw_rank"
    /\ UNCHANGED others_kw
    /\ keywords_list = <<>>
    /\ bar_result' = "info"
    /\ pc' = "kw_done"
    /\ UNCHANGED <<kw_topic_data, kw_selected, keywords_list, keywords_df, bar_data>>

\* lines 134-147
ShowBar ==
    /\ pc = "kw_show"
    /\ UNCHANGED others_kw
    /\ bar_data' = Take(keywords_df, TopN)
    /\ bar_result' = "chart"
    /\ pc' = "kw_done"
    /\ UNCHANGED <<kw_topic_data, kw_selected, keywords_list, keywords_df>>

NextKW ==
    \/ LoadRecord \/ LoadKeyword \/ StartBar \/ GatherKeywords \/ RankKeywords
    \/ NoKeywords \/ ShowBar

InitKeywords == pc = "kw_load" /\ InitKW /\ IdleBM /\ IdleSZ /\ IdleCM /\ IdleAU /\ IdleYR /\ IdleHM

SpecKeywords == InitKeywords /\ [][NextKW]_vars

-----------------------------------------------------------------------------
(* Properties of the keyword ranking                                        *)

PairsOf(kw) == {k \in DOMAIN keywords_list : keywords_list[k][1] = kw}

InputKeywords == {keywords_list[k][1] : k \in DOMAIN keywords_list}

\* the sum of the weights of keyword kw in the input
WeightSum(kw) ==
    SumSeq([k \in DOMAIN keywords_list |->
              IF k \in PairsOf(kw) THEN keywords_list[k][2] ELSE 0])

FirstMet(kw) == Min(PairsOf(kw))

BarRowsOf(kw) == {i \in DOMAIN bar_data : bar_data[i].Keyword = kw}

\* one entry per distinct keyword with the sum of its weights, by summed
\* weight descending, cut to the first 10
RankedAndCut ==
    /\ \A i \in DOMAIN bar_data :
          /\ bar_data[i].Keyword \in InputKeywords
          /\ bar_data[i].Score = WeightSum(bar_data[i].Keyword)
    /\ \A kw \in InputKeywords : Cardinality(BarRowsOf(kw)) <= 1
    /\ \A i, j \in DOMAIN bar_data : i < j => bar_data[i].Score >= bar_data[j].Score
    /\ Len(bar_data) = Min({10, Cardinality(InputKeywords)})
    /\ \A kw \in InputKeywords :
          BarRowsOf(kw) = {} =>
             \A i \in DOMAIN bar_data : bar_data[i].Score >= WeightSum(kw)

\* keywords with equal summed weight come in the order in which they were
\* first met in the input
TiesByFirstMet ==
    /\ \A i, j \in DOMAIN bar_data :
          (i < j /\ bar_data[i].Score = bar_data[j].Score) =>
             FirstMet(bar_data[i].Keyword) < FirstMet(bar_data[j].Keyword)
    /\ \A kw \in InputKeywords :
          BarRowsOf(kw) = {} =>
             \A i \in DOMAIN bar_data :
                bar_data[i].Score = WeightSum(kw) =>
                   FirstMet(bar_data[i].Keyword) < FirstMet(kw)

\* C9 as stated: summed, descending, cut to 10, ties in first-encounter order.
C9_Original == bar_result = "chart" => (RankedAndCut /\ TiesByFirstMet)

\* C9 amended: the ranking returns one entry per distinct keyword with the
\* sum of its weights, ordered by summed weight descending and cut to the
\* first 10; the order among keywords with equal summed weight is not fixed.
C9_Ranking == bar_result = "chart" => RankedAndCut

\* C9 witness: eleven distinct keywords, one of them repeated, two of the ten
\* returned have equal summed weight, and the eleventh is cut.
C9_Witness ==
    /\ bar_result = "chart"
    /\ Cardinality(InputKeywords) = 11
    /\ Len(keywords_list) > 11
    /\ Len(bar_data) = 10
    /\ \E i, j \in DOMAIN bar_data : i < j /\ bar_data[i].Score = bar_data[j].Score
    /\ \E kw \in InputKeywords : Cardinality(PairsOf(kw)) = 2 /\ BarRowsOf(kw) # {}

-----------------------------------------------------------------------------
(* topics.show: the year filter and "Topic Growth Over Time"                *)

MaxSeries == 3          \* rows of topics.csv

\* column layouts of topics.csv: with and without a Timestamp column
SeriesLayouts == {<<"Topic", "Timestamp", "Frequency">>, <<"Topic", "Frequency">>}

SeriesTopics == {0, 1}

\* the dates of topics.csv, as read: the text "2019-12-31" is <<2019, 12, 31>>
SeriesDates == {<<2019, 12, 31>>, <<2020, 6, 15>>, <<2021, 1, 1>>}

\* selected_topic_numbers, lines 81-85; <<>> when no topic is selected
YrSelections == {<<>>, <<0>>, <<0, 1>>}

\* pd.to_datetime on one value: a text is parsed, a datetime is left as it is
ToDatetime(v) ==
    IF "text" \in DOMAIN v
    THEN [year |-> v.text[1], month |-> v.text[2], day |-> v.text[3]]
    ELSE v

\* lines 66, 91: df['Timestamp'] = pd.to_datetime(df['Timestamp'])
ConvertTimestamps(df) ==
    [df EXCEPT !.rows = [k \in DOMAIN @ |-> [@[k] EXCEPT !["Timestamp"] = ToDatetime(@)]]]

\* lines 67-68: the distinct years, ascending
YearsOf(df) == Sorted({df.rows[k]["Timestamp"].year : k \in DOMAIN df.rows})

\* line 88: topics_df[topics_df['Topic'].isin(selected_topic_numbers)]
RowsOfSelected(df, sel) ==
    LET Selected(r) == r["Topic"] \in Range(sel)
    IN  [df EXCEPT !.rows = SelectSeq(@, Selected)]

\* lines 93-94: (year >= start_year) & (year <= end_year)
InRange(y, lo, hi) == lo[1] <= y /\ y <= hi[1]

\* lines 92-95
FilterByYear(df, lo, hi) ==
    LET Kept(r) == InRange(r["Timestamp"].year, lo, hi)
    IN  [df EXCEPT !.rows = SelectSeq(@, Kept)]

InitYR ==
    /\ yr_topics_df \in {[columns |-> c, rows |-> <<>>] : c \in SeriesLayouts}
    /\ yr_selected = <<>>
    /\ start_year = <<>>
    /\ end_year = <<>>
    /\ selected_topics_over_time_df = EmptyDf
    /\ line_result = "none"

\* load_data, line 15: one more row of topics.csv
LoadSeriesRow ==
    /\ pc = "yr_load"
    /\ UNCHANGED others_yr
    /\ Len(yr_topics_df.rows) < MaxSeries
    /\ \E t \in SeriesTopics, d \in SeriesDates :
          yr_topics_df' =
            [yr_topics_df EXCEPT
               !.rows = Append(@, IF HasColumn(yr_topics_df, "Timestamp")
                                  THEN ("Topic" :> t) @@ ("Timestamp" :> [text |-> d])
                                         @@ ("Frequency" :> 1)
                                  ELSE ("Topic" :> t) @@ ("Frequency" :> 1))]
    /\ UNCHANGED <<pc, yr_selected, start_year, end_year, selected_topics_over_time_df,
                   line_result>>

\* lines 65-73: the year widgets; the user may pick any of the years
YearWidgets ==
    /\ pc = "yr_load"
    /\ UNCHANGED others_yr
    /\ ~DfEmpty(yr_topics_df) /\ HasColumn(yr_topics_df, "Timestamp")
    /\ yr_topics_df' = ConvertTimestamps(yr_topics_df)
    /\ \E lo, hi \in Range(YearsOf(yr_topics_df')) :
          start_year' = <<lo>> /\ end_year' = <<hi>>
    /\ pc' = "yr_select"
    /\ UNCHANGED <<yr_selected, selected_topics_over_time_df, line_result>>

\* lines 65, 74-75
NoYearWidgets ==
    /\ pc = "yr_load"
    /\ UNCHANGED others_yr
    /\ DfEmpty(yr_topics_df) \/ ~HasColumn(yr_topics_df, "Timestamp")
    /\ start_year' = <<>> /\ end_year' = <<>>
    /\ pc' = "yr_select"
    /\ UNCHANGED <<yr_topics_df, yr_selected, selected_topics_over_time_df, line_result>>

\* lines 77-79: nothing is selected and show returns
NoSelection ==
    /\ pc = "yr_select"
    /\ UNCHANGED others_yr
    /\ yr_selected' = <<>>
    /\ line_result' = "returned"
    /\ pc' = "yr_done"
    /\ UNCHANGED <<yr_topics_df, start_year, end_year, selected_topics_over_time_df>>

\* lines 81-88
SelectSeries ==
    /\ pc = "yr_select"
    /\ UNCHANGED others_yr
    /\ \E sel \in YrSelections \ {<<>>} :
          /\ yr_selected' = sel
          /\ selected_topics_over_time_df' = RowsOfSelected(yr_topics_df, sel)
    /\ pc' = "yr_filter"
    /\ UNCHANGED <<yr_topics_df, start_year, end_year, line_result>>

\* lines 90-95
FilterYears ==
    /\ pc = "yr_filter"
    /\ UNCHANGED others_yr
    /\ start_year # <<>> /\ end_year # <<>> /\ ~DfEmpty(selected_topics_over_time_df)
    /\ selected_topics_over_time_df' =
          FilterByYear(ConvertTimestamps(selected_topics_over_time_df), start_year, end_year)
    /\ pc' = "yr_line"
    /\ UNCHANGED <<yr_topics_df, yr_selected, start_year, end_year, line_result>>

\* line 90: the condition is false and the filter is skipped
SkipFilter ==
    /\ pc = "yr_filter"
    /\ UNCHANGED others_yr
    /\ ~(start_year # <<>> /\ end_year # <<>> /\ ~DfEmpty(selected_topics_over_time_df))
    /\ pc' = "yr_line"
    /\ UNCHANGED vars_yr

\* lines 198-216: px.line(x='Timestamp') raises when the column is missing
LineChart ==
    /\ pc = "yr_line"
    /\ UNCHANGED others_yr
    /\ line_result' =
          IF DfEmpty(selected_topics_over_time_df) THEN "info"
          ELSE IF HasColumn(selected_topics_over_time_df, "Timestamp") THEN "chart"
          ELSE "error"
    /\ pc' = "yr_done"
    /\ UNCHANGED <<yr_topics_df, yr_selected, start_year, end_year,
                   selected_topics_over_time_df>>

NextYR ==
    \/ LoadSeriesRow \/ YearWidgets \/ NoYearWidgets \/ NoSelection \/ SelectSeries
    \/ FilterYears \/ SkipFilter \/ LineChart

InitYears == pc = "yr_load" /\ InitYR /\ IdleBM /\ IdleSZ /\ IdleCM /\ IdleAU /\ IdleKW /\ IdleHM

SpecYears == InitYears /\ [][NextYR]_vars

-----------------------------------------------------------------------------
(* Properties of the year filter                                            *)

FilterPassed == pc \in {"yr_line", "yr_done"} /\ line_result # "returned"

RangeSelected == start_year # <<>> /\ end_year # <<>>

\* the records of the selected topics whose year lies in the selected range,
\* in the order of the table
RECURSIVE RecordsInRange(_)
RecordsInRange(rs) ==
    IF rs = <<>> THEN <<>>
    ELSE LET front == RecordsInRange(SubSeq(rs, 1, Len(rs) - 1))
             r == rs[Len(rs)]
         IN  IF /\ r["Topic"] \in {yr_selected[k] : k \in DOMAIN yr_selected}
                /\ start_year[1] <= r["Timestamp"].year
                /\ r["Timestamp"].year <= end_year[1]
             THEN Append(front, r)
             ELSE front

\* C10 as stated: with a selected range the result is exactly the records of
\* the selected topics whose year lies in [start_year, end_year], unchanged;
\* with an empty table or no Timestamp column the filter is skipped and the
\* result is empty, without an error.
C10_Original ==
    FilterPassed =>
        /\ RangeSelected =>
              selected_topics_over_time_df.rows = RecordsInRange(yr_topics_df.rows)
        /\ ~RangeSelected => selected_topics_over_time_df.rows = <<>>
        /\ line_result # "error"

\* What does hold: with a selected range the result is exactly the records
\* of the selected topics within the inclusive range, and with an empty table
\* the result is empty and no error follows.
YearRangeKept ==
    FilterPassed =>
        /\ RangeSelected =>
              /\ selected_topics_over_time_df.rows = RecordsInRange(yr_topics_df.rows)
              /\ line_result # "error"
        /\ yr_topics_df.rows = <<>> =>
              /\ selected_topics_over_time_df.rows = <<>>
              /\ line_result # "error"

\* the range [2019, 2020] drops a record of 2021 and keeps one of 2019-12-31
YearRangeReached ==
    /\ pc = "yr_done"
    /\ start_year = <<2019>> /\ end_year = <<2020>>
    /\ \E k \in DOMAIN yr_topics_df.rows :
          /\ yr_topics_df.rows[k]["Timestamp"].year = 2021
          /\ yr_topics_df.rows[k]["Topic"] = 0
    /\ \E k \in DOMAIN selected_topics_over_time_df.rows :
          selected_topics_over_time_df.rows[k]["Timestamp"] =
             [year |-> 2019, month |-> 12, day |-> 31]
    /\ \A k \in DOMAIN selected_topics_over_time_df.rows :
          selected_topics_over_time_df.rows[k]["Timestamp"].year # 2021
    /\ line_result = "chart"

\* without a Timestamp column the unfiltered records reach the line chart,
\* which fails
MissingTimestampError ==
    /\ pc = "yr_done"
    /\ ~HasColumn(yr_topics_df, "Timestamp")
    /\ selected_topics_over_time_df.rows # <<>>
    /\ line_result = "error"

-----------------------------------------------------------------------------
(* home.show: one render of the Home page                                   *)

HomeMaxTopics == 3      \* records in topic_data.json

\* column names a docs_3d.csv may have
Docs3dColumns == {"x", "y", "z", "topic", "Topic", "label", "title", "size"}

\* the values of the label column of docs_3d.csv
Docs3dLabels == <<1, 2, 1>>

\* load_docs3d, lines 17-21: the table read, or None when reading fails
Docs3dResults ==
    {<<>>} \cup {<<[columns |-> c, labels |-> Docs3dLabels]>> : c \in SUBSET Docs3dColumns}

\* records of topic_data.json: with and without topic_number, with and
\* without keywords, with a score float() rejects
HomeItems ==
    { ("topic_number" :> 0) @@
        ("keywords" :> << <<1, [kind |-> "num", val |-> 1]>>,
                          <<2, [kind |-> "bad", val |-> 0]>> >>),
      ("keywords" :> << <<3, [kind |-> "num", val |-> 1]>> >>),
      ("topic_number" :> 1),
      ("topic_number" :> 2) @@
        ("keywords" :> << <<3, [kind |-> "numstr", val |-> 2]>>,
                          <<2, [kind |-> "num", val |-> 1]>> >>) }

HomeTopicData == UNION {[1..n -> HomeItems] : n \in 0..HomeMaxTopics}

\* topics.csv: without rows, or with one row
HomeTopics ==
    { [columns |-> <<"Topic", "Frequency">>, rows |-> <<>>],
      [columns |-> <<"Topic", "Frequency">>,
       rows |-> << ("Topic" :> 0) @@ ("Frequency" :> 25) >>] }

\* blogs.csv: unreadable (line 36), or with one row
HomeBlogs ==
    { EmptyDf,
      [columns |-> <<"title", "topic_label">>,
       rows |-> << ("title" :> "t") @@ ("topic_label" :> "A") >>] }

\* lines 114-120: rename_map, as a dict
RenameMap(cols) ==
    LET noLabel == "label" \notin cols
    IN  (IF "topic" \in cols /\ noLabel THEN ("topic" :> "label") ELSE <<>>)
        @@ (IF "Topic" \in cols /\ noLabel THEN ("Topic" :> "label") ELSE <<>>)
        @@ (IF "title" \in cols /\ "Title" \notin cols THEN ("title" :> "Title") ELSE <<>>)

\* line 121: the name of column c after df.rename(columns=rename_map)
Renamed(cols, c) == Get(RenameMap(cols), c, c)

\* the column names after line 121
RenamedColumns(cols) == {Renamed(cols, c) : c \in cols}

\* how many columns have the name n after line 121
ColumnsNamed(cols, n) == Cardinality({c \in cols : Renamed(cols, c) = n})

\* line 123
Required == {"x", "y", "z"}

\* line 124: not required.issubset(df.columns)
MissingRequired(cols) == ~(Required \subseteq RenamedColumns(cols))

\* lines 128-146: df['label'] is a table and not a column when two columns
\* are named label, and _color_map raises on it
DrawRaises(cols) == ColumnsNamed(cols, "label") > 1

\* line 128: df['label'] if 'label' in df.columns else []
LabelColumn(d) ==
    IF "label" \in RenamedColumns(d.columns)
    THEN [k \in DOMAIN d.labels |-> [kind |-> "int", v |-> d.labels[k]]]
    ELSE <<>>

\* line 168: labels_map.get(str(t), str(t)) for t in topic_ids
LabelsOfTopics(lm, ids) == [k \in DOMAIN ids |-> [kind |-> "str", v |-> LabelOf(lm, ids[k])]]

\* lines 79-82: _color_map(labels)
ColorMap(ls) ==
    LET cs == Unique([k \in DOMAIN ls |-> AsStr(ls[k])])
    IN  [lab \in Range(cs) |-> PaletteAt((CHOOSE i \in DOMAIN cs : cs[i] = lab) - 1)]

\* line 151: not topic_data
NoTopicData(td) == td = <<>>

HasNoColumns(M) == M.shape[2] = 0

\* line 156: X.shape[0] == 0
HasNoRows(M) == M.shape[1] = 0

\* lines 160-165: does fit_transform return (TRUE) or raise (FALSE).
\* PCA(n_components=3) raises unless 3 <= min(n_samples, n_features); UMAP
\* on fewer than five samples returns or raises, depending on its version.
ReducerReturns(umap, shape) ==
    IF umap
    THEN (IF shape[1] > 4 THEN {TRUE} ELSE BOOLEAN)
    ELSE {shape[1] >= 3 /\ shape[2] >= 3}

InitHM ==
    /\ hm_pc = "start"
    /\ use_umap \in BOOLEAN
    /\ docs3d = <<>>
    /\ hm_calls = {}
    /\ reduced = <<>>
    /\ home_result = "none"

\* line 111
LoadDocs3d ==
    /\ pc = "hm" /\ hm_pc = "start"
    /\ UNCHANGED <<others_hm, vars_bm, vars_sz, vars_cm>>
    /\ docs3d' \in Docs3dResults
    /\ hm_pc' = "docs"
    /\ UNCHANGED <<pc, use_umap, hm_calls, reduced, home_result>>

\* lines 112-126
CannotRender ==
    /\ pc = "hm" /\ hm_pc = "docs"
    /\ UNCHANGED <<others_hm, vars_bm, vars_sz, vars_cm>>
    /\ docs3d # <<>>
    /\ MissingRequired(docs3d[1].columns)
    /\ home_result' = "cannot_render"
    /\ hm_pc' = "done"
    /\ UNCHANGED <<pc, use_umap, docs3d, hm_calls, reduced>>

\* lines 112-124, 128-147
DrawPrecomputed ==
    /\ pc = "hm" /\ hm_pc = "docs"
    /\ UNCHANGED <<others_hm, vars_bm, vars_sz>>
    /\ docs3d # <<>>
    /\ ~MissingRequired(docs3d[1].columns)
    /\ IF DrawRaises(docs3d[1].columns)
       THEN /\ home_result' = "draw_raised"
            /\ UNCHANGED vars_cm
       ELSE /\ cm_labels' = LabelColumn(docs3d[1])
            /\ cats' = Unique([k \in DOMAIN cm_labels' |-> AsStr(cm_labels'[k])])
            /\ cmap' = ColorMap(cm_labels')
            /\ home_result' = "chart_precomputed"
    /\ hm_pc' = "done"
    /\ UNCHANGED <<pc, use_umap, docs3d, hm_calls, reduced>>

\* lines 112, 150; load_sources, lines 25-27: topics.csv or
\* topic_labels.json cannot be read and the exception leaves show
LoadSourcesRaises ==
    /\ pc = "hm" /\ hm_pc = "docs"
    /\ UNCHANGED <<others_hm, vars_bm, vars_sz, vars_cm>>
    /\ docs3d = <<>>
    /\ hm_calls' = hm_calls \cup {"load_sources"}
    /\ home_result' = "load_raised"
    /\ hm_pc' = "done"
    /\ UNCHANGED <<pc, use_umap, docs3d, reduced>>

\* lines 112, 150; load_sources, lines 25-37
LoadSources ==
    /\ pc = "hm" /\ hm_pc = "docs"
    /\ UNCHANGED <<others_hm, vars_cm>>
    /\ docs3d = <<>>
    /\ hm_calls' = hm_calls \cup {"load_sources"}
    /\ topic_data' \in HomeTopicData
    /\ topics_df' \in HomeTopics
    /\ blogs_df' \in HomeBlogs
    /\ labels_map' \in LabelMaps
    /\ hm_pc' = "sources"
    /\ UNCHANGED <<pc, use_umap, docs3d, reduced, home_result>>
    /\ UNCHANGED <<vocab, item_i, rows, topic_ids, top5, X, outcome>>
    /\ UNCHANGED <<sz_topic_ids, raw, sizes>>

\* lines 151-153
NoData ==
    /\ pc = "hm" /\ hm_pc = "sources"
    /\ UNCHANGED <<others_hm, vars_bm, vars_sz, vars_cm>>
    /\ NoTopicData(topic_data)
    /\ home_result' = "no_data"
    /\ hm_pc' = "done"
    /\ UNCHANGED <<pc, use_umap, docs3d, hm_calls, reduced>>

\* lines 151, 155: the call _build_topic_matrix(topic_data)
BuildFromShow ==
    /\ pc = "hm" /\ hm_pc = "sources"
    /\ UNCHANGED <<others_hm, vars_bm, vars_sz, vars_cm>>
    /\ ~NoTopicData(topic_data)
    /\ hm_calls' = hm_calls \cup {"_build_topic_matrix"}
    /\ pc' = "bm_start"
    /\ hm_pc' = "building"
    /\ UNCHANGED <<use_umap, docs3d, reduced, home_result>>

\* lines 156-158
NoVectors ==
    /\ pc = "bm_done" /\ hm_pc = "building" /\ outcome = "returned"
    /\ UNCHANGED <<others_hm, vars_bm, vars_sz, vars_cm>>
    /\ HasNoRows(X)
    /\ home_result' = "no_vectors"
    /\ pc' = "hm"
    /\ hm_pc' = "done"
    /\ UNCHANGED <<use_umap, docs3d, hm_calls, reduced>>

\* lines 156, 160-165
Reduce ==
    /\ pc = "bm_done" /\ hm_pc = "building" /\ outcome = "returned"
    /\ UNCHANGED <<others_hm, vars_bm, vars_sz, vars_cm>>
    /\ ~HasNoRows(X)
    /\ hm_calls' = hm_calls \cup {"reducer"}
    /\ pc' = "hm"
    /\ \E ok \in ReducerReturns(use_umap, X.shape) :
          IF ok
          THEN /\ reduced' = <<X.shape[1], 3>>
               /\ hm_pc' = "reduced"
               /\ UNCHANGED home_result
          ELSE /\ home_result' = "reducer_raised"
               /\ hm_pc' = "done"
               /\ UNCHANGED reduced
    /\ UNCHANGED <<use_umap, docs3d>>

\* line 167: the call _topic_sizes(topic_ids, topics_df, blogs_df, labels_map)
SizesFromShow ==
    /\ pc = "hm" /\ hm_pc = "reduced"
    /\ UNCHANGED <<others_hm, vars_bm, vars_cm>>
    /\ hm_calls' = hm_calls \cup {"_topic_sizes"}
    /\ sz_topic_ids' = topic_ids
    /\ pc' = "sz_start"
    /\ hm_pc' = "sizing"
    /\ UNCHANGED <<topics_df, blogs_df, labels_map, raw, sizes>>
    /\ UNCHANGED <<use_umap, docs3d, reduced, home_result>>

\* lines 168-193: the DataFrame needs columns of one length
DrawFromKeywords ==
    /\ pc = "sz_done" /\ hm_pc = "sizing"
    /\ UNCHANGED <<others_hm, vars_bm, vars_sz>>
    /\ IF Len(topic_ids) = reduced[1] /\ Len(sizes) = reduced[1] /\ Len(top5) = reduced[1]
       THEN /\ cm_labels' = LabelsOfTopics(labels_map, topic_ids)
            /\ cats' = Unique([k \in DOMAIN cm_labels' |-> AsStr(cm_labels'[k])])
            /\ cmap' = ColorMap(cm_labels')
            /\ home_result' = "chart_keywords"
       ELSE /\ home_result' = "draw_raised"
            /\ UNCHANGED vars_cm
    /\ pc' = "hm"
    /\ hm_pc' = "done"
    /\ UNCHANGED <<use_umap, docs3d, hm_calls, reduced>>

NextHM ==
    \/ LoadDocs3d \/ CannotRender \/ DrawPrecomputed \/ LoadSourcesRaises \/ LoadSources
    \/ NoData \/ BuildFromShow
    \/ BuildVocab \/ LoopSkip \/ LoopRow \/ ReturnMatrix
    \/ NoVectors \/ Reduce \/ SizesFromShow
    \/ RawFromTopics \/ RawFromBlogs \/ RawUniform \/ ScaleSizes
    \/ DrawFromKeywords

InitHome == pc = "hm" /\ InitHM /\ IdleBM /\ IdleSZ /\ IdleCM /\ IdleAU /\ IdleKW /\ IdleYR

SpecHome == InitHome /\ [][NextHM]_vars

-----------------------------------------------------------------------------
(* Properties of the Home render                                            *)

RenderEnded == hm_pc = "done"

SourcesLoaded == "load_sources" \in hm_calls /\ home_result # "load_raised"

BuilderReturned ==
    "_build_topic_matrix" \in hm_calls /\ pc # "bm_start" /\ pc # "bm_loop"

\* C11: the reducer is never called on a matrix with zero rows; when
\* topic_data is empty or _build_topic_matrix returns zero rows, the reducer
\* is not called and the render ends with a 'no data' message.
C11_ReducerNeverOnEmpty ==
    /\ "reducer" \in hm_calls => (X.shape[1] > 0 /\ Len(X.data) > 0)
    /\ (SourcesLoaded /\ topic_data = <<>>) =>
          /\ "reducer" \notin hm_calls
          /\ RenderEnded => home_result = "no_data"
    /\ (BuilderReturned /\ Len(X.data) = 0) =>
          /\ "reducer" \notin hm_calls
          /\ RenderEnded => home_result = "no_vectors"

\* C11 witness: a non-empty topic_data whose only keywords belong to a record
\* without topic_number: the matrix has columns but no rows, and the render
\* ends with the message, the reducer not called.
C11_Witness ==
    /\ RenderEnded
    /\ topic_data # <<>>
    /\ X.shape[1] = 0 /\ X.shape[2] > 0
    /\ home_result = "no_vectors"
    /\ "reducer" \notin hm_calls

\* the reducer is reached when the matrix has rows
ReducerReached == hm_pc = "reduced" /\ reduced[1] > 0

Docs3dLoaded == docs3d # <<>>

\* C12 as stated: when docs_3d.csv loads, no function of the keyword pipeline
\* is called, and the render ends with the chart of the precomputed
\* coordinates or, when a column among x, y, z is missing, with the 'cannot
\* render' error, never with the 'no data' error of the fallback.
C12_Original ==
    Docs3dLoaded =>
        /\ hm_calls = {}
        /\ RenderEnded =>
              /\ home_result \in {"chart_precomputed", "cannot_render"}
              /\ home_result = "cannot_render" <=>
                    ~({"x", "y", "z"} \subseteq RenamedColumns(docs3d[1].columns))

\* What does hold: when docs_3d.csv loads, no function of the keyword
\* pipeline is called, a missing column among x, y, z ends the render with
\* 'cannot render', and the render never ends with a fallback message.
PrecomputedSkipsPipeline ==
    Docs3dLoaded =>
        /\ hm_calls = {}
        /\ RenderEnded =>
              /\ home_result \notin {"no_data", "no_vectors", "chart_keywords"}
              /\ home_result = "cannot_render" <=>
                    ~({"x", "y", "z"} \subseteq RenamedColumns(docs3d[1].columns))

\* docs_3d.csv has x, y, z and both a topic and a Topic column: both are
\* renamed to label and the render ends with an exception
DuplicateLabelRaises ==
    /\ RenderEnded
    /\ Docs3dLoaded
    /\ {"x", "y", "z", "topic", "Topic"} \subseteq docs3d[1].columns
    /\ home_result = "draw_raised"

\* the chart of the precomputed coordinates is drawn, with its colours
PrecomputedChartReached ==
    /\ RenderEnded
    /\ home_result = "chart_precomputed"
    /\ "Topic" \in docs3d[1].columns
    /\ DOMAIN cmap = {1, 2}

-----------------------------------------------------------------------------
(* Properties of _build_topic_matrix                                        *)

BuildReturned == pc = "bm_done" /\ outcome = "returned"

\* the records that have a topic_number, in input order
Numbered(td) == SelectSeq(td, LAMBDA it : "topic_number" \in DOMAIN it)

\* the records that have at least one keyword pair
WithKeywords(td) == SelectSeq(td, LAMBDA it : Get(it, "keywords", <<>>) # <<>>)

DistinctTerms(td) ==
    UNION {{p[1] : p \in Range(Get(td[k], "keywords", <<>>))} : k \in DOMAIN td}

SomeKeyword(td) == \E k \in DOMAIN td : Get(td[k], "keywords", <<>>) # <<>>

\* C1 as stated: with at least one non-empty keyword list, the matrix has one
\* row per record that has at least one keyword (none for a record with zero
\* keywords) and one column per distinct term.
C1_Original ==
    (pc = "bm_done" /\ SomeKeyword(topic_data)) =>
        /\ outcome = "returned"
        /\ X.shape = <<Len(WithKeywords(topic_data)),
                       Cardinality(DistinctTerms(topic_data))>>

\* C1 amended: with at least one non-empty keyword list, the matrix has exactly
\* one row per record that has a topic_number, with or without keywords (a
\* record without topic_number gets no row), and one column per distinct term
\* across all records; every row has that many cells.
C1_RowsAndColumns ==
    (pc = "bm_done" /\ SomeKeyword(topic_data)) =>
        /\ outcome = "returned"
        /\ X.shape = <<Len(Numbered(topic_data)),
                       Cardinality(DistinctTerms(topic_data))>>
        /\ Len(X.data) = X.shape[1]
        /\ \A r \in DOMAIN X.data : Len(X.data[r]) = X.shape[2]

\* C1 witness: a returned matrix with a row for a record that has a
\* topic_number and no keyword, and no row for a record that has keywords and
\* no topic_number.
C1_Witness ==
    /\ BuildReturned
    /\ SomeKeyword(topic_data)
    /\ \E k \in DOMAIN topic_data :
          /\ "topic_number" \in DOMAIN topic_data[k]
          /\ Get(topic_data[k], "keywords", <<>>) = <<>>
    /\ \E k \in DOMAIN topic_data :
          /\ "topic_number" \notin DOMAIN topic_data[k]
          /\ Get(topic_data[k], "keywords", <<>>) # <<>>
    /\ X.shape[1] = 1

\* the weight a score parses to, unparseable counting as 0
ParsedWeight(score) == IF score.kind = "bad" THEN 0 ELSE score.val

AllWeightsSum(kws) == SumSeq([j \in DOMAIN kws |-> ParsedWeight(kws[j][2])])

IsLastOccurrence(kws, j) == \A j2 \in DOMAIN kws : j2 > j => kws[j2][1] # kws[j][1]

LastWeightsSum(kws) ==
    SumSeq([j \in DOMAIN kws |->
              IF IsLastOccurrence(kws, j) THEN ParsedWeight(kws[j][2]) ELSE 0])

HasRepeatedTerm(kws) == \E j \in DOMAIN kws : ~IsLastOccurrence(kws, j)

C3_EmptyOutcome ==
    (pc \notin {"load", "bm_start"} /\ ~SomeKeyword(topic_data)) =>
        /\ pc = "bm_done"
        /\ outcome = "returned"
        /\ X.shape = <<0, 0>>
        /\ X.data = <<>>
        /\ topic_ids = <<>>
        /\ top5 = <<>>

\* C3 witness: the empty outcome for a non-empty list whose records have a
\* topic_number and no keyword.
C3_Witness ==
    /\ BuildReturned
    /\ Len(topic_data) = MaxTopics
    /\ \A k \in DOMAIN topic_data : "topic_number" \in DOMAIN topic_data[k]
    /\ \E k \in DOMAIN topic_data : "keywords" \in DOMAIN topic_data[k]
    /\ ~SomeKeyword(topic_data)
    /\ X.shape = <<0, 0>>

\* the cell of term in the row of a record with keyword list kws: the parsed
\* weight of the term's last pair, 0 when the record does not have the term
CellOf(kws, term) ==
    LET at == {j \in DOMAIN kws : kws[j][1] = term}
    IN  IF at = {} THEN 0
        ELSE ParsedWeight(kws[CHOOSE j \in at : \A j2 \in at : j2 <= j][2])

\* the terms of all records, ascending
AllTermsSorted(td) ==
    LET S == DistinctTerms(td)
    IN  [c \in 1..Cardinality(S) |->
           CHOOSE t \in S : Cardinality({u \in S : u < t}) = c - 1]

\* C13: the matrix rows, the topic-id list and the top-5 list have the same
\* length; the i-th entry of each comes from the i-th record that has a
\* topic_number, in input order; a record without topic_number produces no
\* entry, and its keywords still are columns of the matrix.
C13_IndexAligned ==
    BuildReturned =>
        /\ Len(X.data) = Len(topic_ids)
        /\ Len(top5) = Len(topic_ids)
        /\ X.shape[1] = Len(topic_ids)
        /\ Len(topic_ids) =
              IF SomeKeyword(topic_data) THEN Len(Numbered(topic_data)) ELSE 0
        /\ \A i \in DOMAIN topic_ids :
              LET rec == Numbered(topic_data)[i]
                  kws == Get(rec, "keywords", <<>>)
                  terms == AllTermsSorted(topic_data)
              IN  /\ topic_ids[i] = rec["topic_number"]
                  /\ top5[i] = [k \in 1..Min({5, Len(kws)}) |-> kws[k][1]]
                  /\ X.data[i] = [c \in DOMAIN terms |-> CellOf(kws, terms[c])]

\* C13 witness: the first record has no topic_number and the only pair of a
\* term, the second has a topic_number and its pairs in descending order of
\* the terms: the one entry of each output comes from the second record, and
\* the matrix has the column of the first record's term.
C13_Witness ==
    /\ BuildReturned
    /\ Len(topic_data) = 2
    /\ "topic_number" \notin DOMAIN topic_data[1]
    /\ Get(topic_data[1], "keywords", <<>>) # <<>>
    /\ "topic_number" \in DOMAIN topic_data[2]
    /\ \E t \in DistinctTerms(topic_data) :
          \A p \in Range(Get(topic_data[2], "keywords", <<>>)) : p[1] # t
    /\ Len(topic_ids) = 1 /\ Len(top5) = 1
    /\ topic_ids[1] = topic_data[2]["topic_number"]
    /\ X.shape = <<1, 2>>

\* two records with topic numbers 1 and 0 give the topic ids in that order
InputOrderReached ==
    /\ BuildReturned
    /\ topic_ids = <<1, 0>>
    /\ top5[1] = <<2>> /\ top5[2] = <<1>>

\* topic_data with the score of pair j of record k replaced by s
WithScore(td, k, j, s) ==
    [td EXCEPT ![k] = [@ EXCEPT !["keywords"] = [@ EXCEPT ![j] = <<@[1], s>>]]]

\* the row of X that record k of td produces (k has a topic_number)
RowIndex(td, k) == Len(Numbered(SubSeq(td, 1, k)))

Unparseable(score) == score.kind = "bad"

\* C4: an unparseable score stores 0.0 in its own cell and changes no other
\* cell; the build returns a matrix, which has the shape and, in every cell
\* but that one, the value of the matrix built from the same input with a
\* valid score in its place.
C4_MalformedScore ==
    pc = "bm_done" =>
        /\ outcome = "returned"
        /\ \A k \in DOMAIN topic_data :
           \A j \in DOMAIN Get(topic_data[k], "keywords", <<>>) :
              LET kws == topic_data[k]["keywords"]
                  c == Idx(vocab, kws[j][1])
              IN  Unparseable(kws[j][2]) =>
                    /\ VecAfter(vocab, kws, j)[c] = 0
                    /\ \A c2 \in DOMAIN vocab \ {c} :
                          VecAfter(vocab, kws, j)[c2] = VecAfter(vocab, kws, j - 1)[c2]
                    /\ ("topic_number" \in DOMAIN topic_data[k] /\ IsLastOccurrence(kws, j))
                          => X.data[RowIndex(topic_data, k)][c] = 0
                    /\ \A s \in ValidScores :
                          LET Y == BuildTopicMatrix(WithScore(topic_data, k, j, s))
                          IN  /\ Y.shape = X.shape
                              /\ \A r \in DOMAIN X.data : \A c2 \in DOMAIN vocab :
                                    (r = RowIndex(topic_data, k) /\ c2 = c)
                                       \/ Y.data[r][c2] = X.data[r][c2]

\* C4 witness: a returned matrix with two rows built from an input holding an
\* unparseable score and a parseable non-zero one.
C4_Witness ==
    /\ BuildReturned
    /\ X.shape[1] = 2
    /\ \E k \in DOMAIN topic_data :
          /\ "topic_number" \in DOMAIN topic_data[k]
          /\ \E j \in DOMAIN Get(topic_data[k], "keywords", <<>>) :
                Unparseable(topic_data[k]["keywords"][j][2])
    /\ \E r \in DOMAIN X.data : SumSeq(X.data[r]) > 0

====
